---------------------------- MODULE Spec2Model ----------------------------
(***************************************************************************)
(* Model of collector/collector.go: PipelineServiceCollector, a Prometheus *)
(* collector that lists PipelineRuns, derives two durations per run and    *)
(* exposes them as two gauge vectors labelled by (name, uid).              *)
(*                                                                         *)
(* Each caller of Collect is a process; pc gives its position in           *)
(* Collect/collect.  The helper functions getPipelineRuns,                  *)
(* calculateScheduledDuration and calculateCompletedDuration live in the   *)
(* same package but outside collector.go; they are modelled from the       *)
(* written specification of the DurationCalculator and PipelineRunSource.  *)
(***************************************************************************)
EXTENDS Integers, Sequences, FiniteSets, TLC

\* Number of goroutines that may call Collect concurrently.
NumProcs == 2

Procs == 1..NumProcs

\* An optional lifecycle timestamp that has not been recorded.
Unset == -1

\* Label values (name, uid) of the pipeline-runs the source may return.
Keys == { <<"a", "1">>, <<"b", "2">> }

\* <<created, started, completed>> timestamps a pipeline-run may carry:
\* all valid; completion missing; started before creation; nothing recorded.
Profiles == { <<0, 1, 2>>, <<0, 1, Unset>>, <<1, 0, 2>>, <<Unset, Unset, Unset>> }

PipelineRun ==
    { [name |-> k[1], uid |-> k[2], created |-> t[1], started |-> t[2], completed |-> t[3]] :
        k \in Keys, t \in Profiles }

\* Lists getPipelineRuns may return: any sequence of runs with distinct uids.
PipelineRunLists ==
    { l \in UNION { [1..n -> PipelineRun] : n \in 0..Cardinality(Keys) } :
        \A i, j \in DOMAIN l : i # j => l[i].uid # l[j].uid }

\* calculateScheduledDuration: seconds from creation to start.
calculateScheduledDuration(run) ==
    IF run.created = Unset \/ run.started = Unset
      THEN [val |-> 0, err |-> "MissingTimestamp"]
      ELSE IF run.started < run.created
        THEN [val |-> 0, err |-> "InvalidOrdering"]
        ELSE [val |-> run.started - run.created, err |-> "nil"]

\* calculateCompletedDuration: seconds from creation to completion.
calculateCompletedDuration(run) ==
    IF run.created = Unset \/ run.completed = Unset
      THEN [val |-> 0, err |-> "MissingTimestamp"]
      ELSE IF run.completed < run.created
        THEN [val |-> 0, err |-> "InvalidOrdering"]
        ELSE [val |-> run.completed - run.created, err |-> "nil"]

\* GaugeVec.WithLabelValues(name, uid).Set(v): upsert, last write wins.
GaugeSet(g, key, v) ==
    [k \in (DOMAIN g) \cup {key} |-> IF k = key THEN v ELSE g[k]]

\* GaugeVec.Collect(ch): every (label-tuple, value) currently held.
GaugeCollect(g, metric) ==
    { [metric |-> metric, name |-> k[1], uid |-> k[2], value |-> g[k]] : k \in DOMAIN g }

EmptyGauge == [k \in {} |-> 0]

VARIABLES
    mutex,              \* c.mutex: 0 when free, else the holder
    pc,                 \* position of each caller in Collect/collect
    durationScheduled,  \* c.durationScheduled: label-tuple -> value
    durationCompleted,  \* c.durationCompleted: label-tuple -> value
    prList,             \* collect's prList.Items
    idx,                \* position of the range loop over prList.Items
    scheduledDuration,  \* loop local
    completedDuration,  \* loop local
    err,                \* whether collect returns a non-nil error
    sink,               \* metrics sent on ch during this Collect
    logs,               \* error records written during this Collect
    attempts,           \* per item: calls made of <<scheduled, completed>> calculation
    atLock,             \* both gauges as they stood when the lock was taken
    lastEmitted         \* <<snapshot>> streamed by the latest successful pass, <<>> if none

vars == << mutex, pc, durationScheduled, durationCompleted, prList, idx,
           scheduledDuration, completedDuration, err, sink, logs, attempts,
           atLock, lastEmitted >>

gauges == << durationScheduled, durationCompleted >>
locals == << prList, idx, scheduledDuration, completedDuration, err, sink, logs, attempts >>

\* NewCollector: two empty gauge vectors, mutex free, nobody collecting.
Init ==
    /\ mutex = 0
    /\ pc = [p \in Procs |-> "idle"]
    /\ durationScheduled = EmptyGauge
    /\ durationCompleted = EmptyGauge
    /\ prList = [p \in Procs |-> << >>]
    /\ idx = [p \in Procs |-> 0]
    /\ scheduledDuration = [p \in Procs |-> 0]
    /\ completedDuration = [p \in Procs |-> 0]
    /\ err = [p \in Procs |-> FALSE]
    /\ sink = [p \in Procs |-> {}]
    /\ logs = [p \in Procs |-> << >>]
    /\ attempts = [p \in Procs |-> << >>]
    /\ atLock = << EmptyGauge, EmptyGauge >>
    /\ lastEmitted = << >>

\* Positions at which a caller is inside the collection pass.
InPass == { "get", "calc", "setS", "setC", "stream", "ret", "unlock" }

\* Where the range loop goes when it is at position i of list l.
LoopAt(l, i) == IF i <= Len(l) THEN "calc" ELSE "stream"

\* A scrape invokes Collect(ch); the caller arrives at c.mutex.Lock().
Call(p) ==
    /\ pc[p] = "idle"
    /\ pc' = [pc EXCEPT ![p] = "lock"]
    /\ UNCHANGED << mutex, gauges, locals, atLock, lastEmitted >>

LockNoExclusion(p) ==
    /\ pc[p] = "lock"
    /\ mutex' = p
    /\ pc' = [pc EXCEPT ![p] = "get"]
    /\ atLock' = << durationScheduled, durationCompleted >>
    /\ UNCHANGED << gauges, locals, lastEmitted >>

\* c.mutex.Lock(): blocks while another caller holds the mutex.
Lock(p) ==
    /\ pc[p] = "lock"
    /\ mutex = 0
    /\ mutex' = p
    /\ pc' = [pc EXCEPT ![p] = "get"]
    /\ atLock' = << durationScheduled, durationCompleted >>
    /\ UNCHANGED << gauges, locals, lastEmitted >>

GetFailResets(p) ==
    /\ pc[p] = "get"
    /\ logs' = [logs EXCEPT ![p] = Append(@, "Error while fetching PipelineRuns")]
    /\ err' = [err EXCEPT ![p] = TRUE]
    /\ pc' = [pc EXCEPT ![p] = "ret"]
    /\ durationScheduled' = EmptyGauge
    /\ durationCompleted' = EmptyGauge
    /\ UNCHANGED << mutex, prList, idx, scheduledDuration, completedDuration,
                    sink, attempts, atLock, lastEmitted >>

GetFailStreams(p) ==
    /\ pc[p] = "get"
    /\ logs' = [logs EXCEPT ![p] = Append(@, "Error while fetching PipelineRuns")]
    /\ err' = [err EXCEPT ![p] = TRUE]
    /\ pc' = [pc EXCEPT ![p] = "ret"]
    /\ sink' = [sink EXCEPT ![p] = GaugeCollect(durationScheduled, "scheduled")
                                     \cup GaugeCollect(durationCompleted, "completed")]
    /\ UNCHANGED << mutex, gauges, prList, idx, scheduledDuration, completedDuration,
                    attempts, atLock, lastEmitted >>

\* getPipelineRuns() failed: collect logs the error and returns it.
GetFail(p) ==
    /\ pc[p] = "get"
    /\ logs' = [logs EXCEPT ![p] = Append(@, "Error while fetching PipelineRuns")]
    /\ err' = [err EXCEPT ![p] = TRUE]
    /\ pc' = [pc EXCEPT ![p] = "ret"]
    /\ UNCHANGED << mutex, gauges, prList, idx, scheduledDuration, completedDuration,
                    sink, attempts, atLock, lastEmitted >>

GetOkResets(p) ==
    /\ pc[p] = "get"
    /\ \E l \in PipelineRunLists :
         /\ prList' = [prList EXCEPT ![p] = l]
         /\ idx' = [idx EXCEPT ![p] = 1]
         /\ pc' = [pc EXCEPT ![p] = LoopAt(l, 1)]
    /\ durationScheduled' = EmptyGauge
    /\ durationCompleted' = EmptyGauge
    /\ UNCHANGED << mutex, scheduledDuration, completedDuration, err,
                    sink, logs, attempts, atLock, lastEmitted >>

\* getPipelineRuns() succeeded: the range loop starts on the returned items.
GetOk(p) ==
    /\ pc[p] = "get"
    /\ \E l \in PipelineRunLists :
         /\ prList' = [prList EXCEPT ![p] = l]
         /\ idx' = [idx EXCEPT ![p] = 1]
         /\ pc' = [pc EXCEPT ![p] = LoopAt(l, 1)]
    /\ UNCHANGED << mutex, gauges, scheduledDuration, completedDuration, err,
                    sink, logs, attempts, atLock, lastEmitted >>

\* The error records the two calculations of one item give rise to.
CalcLogs(s, c) ==
    (IF s.err # "nil"
       THEN << "Error while calculating the scheduled time of a PipelineRun: " >>
       ELSE << >>)
    \o
    (IF c.err # "nil"
       THEN << "Error while calculating the completion time of a PipelineRun: " >>
       ELSE << >>)

CalcBreakOnErr(p) ==
    /\ pc[p] = "calc"
    /\ LET run == prList[p][idx[p]]
           s == calculateScheduledDuration(run)
           c == calculateCompletedDuration(run)
       IN  IF s.err # "nil"
             THEN /\ logs' = [logs EXCEPT ![p] = @ \o CalcLogs(s, [val |-> 0, err |-> "nil"])]
                  /\ attempts' = [attempts EXCEPT ![p] = Append(@, << 1, 0 >>)]
                  /\ pc' = [pc EXCEPT ![p] = "stream"]
                  /\ UNCHANGED << scheduledDuration, completedDuration >>
             ELSE /\ scheduledDuration' = [scheduledDuration EXCEPT ![p] = s.val]
                  /\ completedDuration' = [completedDuration EXCEPT ![p] = c.val]
                  /\ logs' = [logs EXCEPT ![p] = @ \o CalcLogs(s, c)]
                  /\ attempts' = [attempts EXCEPT ![p] = Append(@, << 1, 1 >>)]
                  /\ pc' = [pc EXCEPT ![p] = "setS"]
    /\ UNCHANGED << mutex, gauges, prList, idx, err, sink, atLock, lastEmitted >>

\* Both duration calculations of the current item; each error is logged
\* and execution continues.
Calc(p) ==
    /\ pc[p] = "calc"
    /\ LET run == prList[p][idx[p]]
           s == calculateScheduledDuration(run)
           c == calculateCompletedDuration(run)
       IN  /\ scheduledDuration' = [scheduledDuration EXCEPT ![p] = s.val]
           /\ completedDuration' = [completedDuration EXCEPT ![p] = c.val]
           /\ logs' = [logs EXCEPT ![p] = @ \o CalcLogs(s, c)]
           /\ attempts' = [attempts EXCEPT ![p] = Append(@, << 1, 1 >>)]
    /\ pc' = [pc EXCEPT ![p] = "setS"]
    /\ UNCHANGED << mutex, gauges, prList, idx, err, sink, atLock, lastEmitted >>

\* c.durationScheduled.WithLabelValues(name, uid).Set(scheduledDuration)
SetScheduled(p) ==
    /\ pc[p] = "setS"
    /\ LET run == prList[p][idx[p]]
       IN  durationScheduled' =
               GaugeSet(durationScheduled, << run.name, run.uid >>, scheduledDuration[p])
    /\ pc' = [pc EXCEPT ![p] = "setC"]
    /\ UNCHANGED << mutex, durationCompleted, locals, atLock, lastEmitted >>

SetCompletedSkipOnErr(p) ==
    /\ pc[p] = "setC"
    /\ LET run == prList[p][idx[p]]
       IN  durationCompleted' =
               IF calculateCompletedDuration(run).err # "nil"
                 THEN durationCompleted
                 ELSE GaugeSet(durationCompleted, << run.name, run.uid >>, completedDuration[p])
    /\ idx' = [idx EXCEPT ![p] = @ + 1]
    /\ scheduledDuration' = [scheduledDuration EXCEPT ![p] = 0]
    /\ completedDuration' = [completedDuration EXCEPT ![p] = 0]
    /\ pc' = [pc EXCEPT ![p] = LoopAt(prList[p], idx[p] + 1)]
    /\ UNCHANGED << mutex, durationScheduled, prList, err, sink, logs, attempts,
                    atLock, lastEmitted >>

\* c.durationCompleted.WithLabelValues(name, uid).Set(completedDuration);
\* the iteration ends and the loop moves to the next item.
SetCompleted(p) ==
    /\ pc[p] = "setC"
    /\ LET run == prList[p][idx[p]]
       IN  durationCompleted' =
               GaugeSet(durationCompleted, << run.name, run.uid >>, completedDuration[p])
    /\ idx' = [idx EXCEPT ![p] = @ + 1]
    /\ scheduledDuration' = [scheduledDuration EXCEPT ![p] = 0]
    /\ completedDuration' = [completedDuration EXCEPT ![p] = 0]
    /\ pc' = [pc EXCEPT ![p] = LoopAt(prList[p], idx[p] + 1)]
    /\ UNCHANGED << mutex, durationScheduled, prList, err, sink, logs, attempts,
                    atLock, lastEmitted >>

StreamScheduledOnly(p) ==
    /\ pc[p] = "stream"
    /\ LET out == GaugeCollect(durationScheduled, "scheduled")
       IN  /\ sink' = [sink EXCEPT ![p] = @ \cup out]
           /\ lastEmitted' = << out >>
    /\ err' = [err EXCEPT ![p] = FALSE]
    /\ pc' = [pc EXCEPT ![p] = "ret"]
    /\ UNCHANGED << mutex, gauges, prList, idx, scheduledDuration, completedDuration,
                    logs, attempts, atLock >>

\* c.durationScheduled.Collect(ch); c.durationCompleted.Collect(ch); return nil
Stream(p) ==
    /\ pc[p] = "stream"
    /\ LET out == GaugeCollect(durationScheduled, "scheduled")
                    \cup GaugeCollect(durationCompleted, "completed")
       IN  /\ sink' = [sink EXCEPT ![p] = @ \cup out]
           /\ lastEmitted' = << out >>
    /\ err' = [err EXCEPT ![p] = FALSE]
    /\ pc' = [pc EXCEPT ![p] = "ret"]
    /\ UNCHANGED << mutex, gauges, prList, idx, scheduledDuration, completedDuration,
                    logs, attempts, atLock >>

ReturnNoLog(p) ==
    /\ pc[p] = "ret"
    /\ pc' = [pc EXCEPT ![p] = "unlock"]
    /\ UNCHANGED << mutex, gauges, locals, atLock, lastEmitted >>

\* Collect: if collect returned an error, log it; the deferred unlock is next.
Return(p) ==
    /\ pc[p] = "ret"
    /\ logs' = [logs EXCEPT ![p] =
                   IF err[p] THEN Append(@, "error collecting pipeline-service metrics") ELSE @]
    /\ pc' = [pc EXCEPT ![p] = "unlock"]
    /\ UNCHANGED << mutex, gauges, prList, idx, scheduledDuration, completedDuration,
                    err, sink, attempts, atLock, lastEmitted >>

\* What Collect leaves behind when it returns: its locals are gone.
Leave(p) ==
    /\ pc' = [pc EXCEPT ![p] = "idle"]
    /\ prList' = [prList EXCEPT ![p] = << >>]
    /\ idx' = [idx EXCEPT ![p] = 0]
    /\ err' = [err EXCEPT ![p] = FALSE]
    /\ sink' = [sink EXCEPT ![p] = {}]
    /\ logs' = [logs EXCEPT ![p] = << >>]
    /\ attempts' = [attempts EXCEPT ![p] = << >>]
    /\ UNCHANGED << gauges, scheduledDuration, completedDuration, atLock, lastEmitted >>

UnlockOnSuccessOnly(p) ==
    /\ pc[p] = "unlock"
    /\ mutex' = IF err[p] THEN mutex ELSE 0
    /\ Leave(p)

\* defer c.mutex.Unlock(): runs on every return of Collect.
Unlock(p) ==
    /\ pc[p] = "unlock"
    /\ mutex' = 0
    /\ Leave(p)

Next ==
    \E p \in Procs :
        \/ Call(p)
        \/ Lock(p)
        \/ GetFail(p)
        \/ GetOk(p)
        \/ Calc(p)
        \/ SetScheduled(p)
        \/ SetCompleted(p)
        \/ Stream(p)
        \/ Return(p)
        \/ Unlock(p)

Spec == Init /\ [][Next]_vars

\* A caller inside Collect keeps running; a caller blocked on the mutex is
\* handed it once it is released often enough (sync.Mutex starvation mode).
\* Nothing forces a new scrape to arrive.
Fairness ==
    \A p \in Procs :
        /\ SF_vars(Lock(p))
        /\ WF_vars(GetFail(p) \/ GetOk(p))
        /\ WF_vars(Calc(p))
        /\ WF_vars(SetScheduled(p))
        /\ WF_vars(SetCompleted(p))
        /\ WF_vars(Stream(p))
        /\ WF_vars(Return(p))
        /\ WF_vars(Unlock(p))

FairSpec == Spec /\ Fairness


(***************************************************************************)
(* Properties                                                              *)
(***************************************************************************)

\* A gauge's entry for a label-tuple: <<value>> when present, << >> when absent.
Entry(g, k) == IF k \in DOMAIN g THEN << g[k] >> ELSE << >>

KeyOf(run) == << run.name, run.uid >>

\* A pass has run to the point where only the deferred unlock remains.
PassFailed(p) == pc[p] = "unlock" /\ err[p]
PassSucceeded(p) == pc[p] = "unlock" /\ ~err[p]

\* C1: at most one caller is inside the collection pass at any time, and a
\* caller inside the pass is the holder of the mutex.
C1_MutualExclusion ==
    /\ Cardinality({ p \in Procs : pc[p] \in InPass }) <= 1
    /\ \A p \in Procs : pc[p] \in InPass => mutex = p

\* One caller is mutating gauges while another is blocked at the lock.
C1_Witness ==
    \E p, q \in Procs :
        /\ p # q
        /\ pc[p] = "setC"
        /\ pc[q] = "lock"
        /\ DOMAIN durationScheduled # {}

\* C2: after a successful listing, a gauge whose calculation failed for an
\* item keeps the entry it had before the pass (previous value or absent).
C2_FailedCalcLeavesGaugeUnset ==
    \A p \in Procs :
        PassSucceeded(p) =>
            \A i \in DOMAIN prList[p] :
                LET run == prList[p][i]
                IN  /\ calculateScheduledDuration(run).err # "nil" =>
                          Entry(durationScheduled, KeyOf(run)) = Entry(atLock[1], KeyOf(run))
                    /\ calculateCompletedDuration(run).err # "nil" =>
                          Entry(durationCompleted, KeyOf(run)) = Entry(atLock[2], KeyOf(run))

\* C3: a pass whose listing failed leaves both gauges as they were when the
\* pass began and sends nothing to the sink.
C3_FailedListNoEffect ==
    \A p \in Procs :
        err[p] =>
            /\ << durationScheduled, durationCompleted >> = atLock
            /\ sink[p] = {}

\* A failed pass is about to return while the gauges hold earlier entries.
C3_Witness ==
    \E p \in Procs :
        /\ PassFailed(p)
        /\ DOMAIN durationScheduled = Keys
        /\ DOMAIN durationCompleted = Keys

\* C4 as stated: a pass whose listing failed emits the snapshot that the
\* preceding successful pass emitted.
C4_FailedPassEmitsPreviousSnapshot ==
    \A p \in Procs :
        (PassFailed(p) /\ lastEmitted # << >>) => sink[p] = lastEmitted[1]

\* C4 amended: a pass whose listing failed emits nothing, and the gauges
\* still hold exactly the snapshot the preceding successful pass emitted.
C4_FailedPassKeepsPreviousSnapshot ==
    \A p \in Procs :
        (PassFailed(p) /\ lastEmitted # << >>) =>
            /\ sink[p] = {}
            /\ GaugeCollect(durationScheduled, "scheduled")
                 \cup GaugeCollect(durationCompleted, "completed") = lastEmitted[1]

\* A failed pass follows a successful pass that emitted samples.
C4_Witness ==
    \E p \in Procs :
        /\ PassFailed(p)
        /\ lastEmitted # << >>
        /\ lastEmitted[1] # {}

\* C5 as stated: a pass whose listing failed writes exactly one error record.
C5_FailedPassLogsOnce ==
    \A p \in Procs : PassFailed(p) => Len(logs[p]) = 1

\* C5 amended: a pass whose listing failed writes exactly two error records,
\* the first by collect and the second by Collect.
C5_FailedPassLogsTwice ==
    \A p \in Procs :
        PassFailed(p) =>
            logs[p] = << "Error while fetching PipelineRuns",
                         "error collecting pipeline-service metrics" >>

\* A failed pass has written its records and is about to return.
C5_Witness ==
    \E p \in Procs : PassFailed(p) /\ Len(logs[p]) > 0

\* C6: no step removes a label-tuple from either gauge.
C6_LabelsNeverRemoved ==
    [][ /\ DOMAIN durationScheduled \subseteq DOMAIN durationScheduled'
        /\ DOMAIN durationCompleted \subseteq DOMAIN durationCompleted' ]_vars

\* A successful pass over a list that lacks a run still finds that run's
\* label-tuple in both gauges.
C6_Witness ==
    \E p \in Procs :
        /\ PassSucceeded(p)
        /\ \E k \in Keys :
             /\ \A i \in DOMAIN prList[p] : KeyOf(prList[p][i]) # k
             /\ k \in DOMAIN durationScheduled
             /\ k \in DOMAIN durationCompleted

\* C7: once the loop is over, every item of the list has had exactly one
\* attempt of each calculation, whatever failed.
C7_EveryItemAttemptedOnce ==
    \A p \in Procs :
        (pc[p] \in { "stream", "ret", "unlock" } /\ ~err[p]) =>
            /\ Len(attempts[p]) = Len(prList[p])
            /\ \A i \in DOMAIN attempts[p] : attempts[p][i] = << 1, 1 >>

\* The loop ran over two items although both calculations of the first failed.
C7_Witness ==
    \E p \in Procs :
        /\ PassSucceeded(p)
        /\ Len(prList[p]) = 2
        /\ calculateScheduledDuration(prList[p][1]).err # "nil"
        /\ calculateCompletedDuration(prList[p][1]).err # "nil"
        /\ Len(attempts[p]) = 2

\* C8: a successful pass streams exactly the contents of both gauges after
\* its updates (this pass's values for listed runs, earlier values for the
\* rest), and streams nothing before the loop is over.
C8_StreamsFullContents ==
    \A p \in Procs :
        /\ pc[p] \in { "get", "calc", "setS", "setC", "stream" } => sink[p] = {}
        /\ (pc[p] \in { "ret", "unlock" } /\ ~err[p]) =>
              /\ sink[p] = GaugeCollect(durationScheduled, "scheduled")
                             \cup GaugeCollect(durationCompleted, "completed")
              /\ idx[p] = Len(prList[p]) + 1
              /\ \A i \in DOMAIN prList[p] :
                    LET run == prList[p][i]
                    IN  /\ [metric |-> "scheduled", name |-> run.name, uid |-> run.uid,
                            value |-> calculateScheduledDuration(run).val] \in sink[p]
                        /\ [metric |-> "completed", name |-> run.name, uid |-> run.uid,
                            value |-> calculateCompletedDuration(run).val] \in sink[p]
              /\ \A k \in Keys :
                    (\A i \in DOMAIN prList[p] : KeyOf(prList[p][i]) # k) =>
                        /\ k \in DOMAIN atLock[1] =>
                              [metric |-> "scheduled", name |-> k[1], uid |-> k[2],
                               value |-> atLock[1][k]] \in sink[p]
                        /\ k \in DOMAIN atLock[2] =>
                              [metric |-> "completed", name |-> k[1], uid |-> k[2],
                               value |-> atLock[2][k]] \in sink[p]

\* A successful pass over one run has streamed four samples: two set in this
\* pass and two retained from an earlier pass.
C8_Witness ==
    \E p \in Procs :
        /\ PassSucceeded(p)
        /\ Len(prList[p]) = 1
        /\ Cardinality(sink[p]) = 4

\* C9: a held mutex is eventually released, whatever the outcome of the
\* pass, and a caller blocked on the mutex eventually acquires it.
C9_LockAlwaysReleased ==
    /\ (mutex # 0) ~> (mutex = 0)
    /\ \A p \in Procs : (pc[p] = "lock") ~> (mutex = p)

\* A caller is blocked on the mutex while a failed pass is about to return.
C9_Witness ==
    \E p, q \in Procs :
        /\ p # q
        /\ PassFailed(p)
        /\ mutex = p
        /\ pc[q] = "lock"

\* C10: whenever the mutex is free, both gauges hold the same label-tuples.
C10_SameLabelSets ==
    mutex = 0 => DOMAIN durationScheduled = DOMAIN durationCompleted

\* The mutex is free and a run whose completion calculation failed (its
\* scheduled value is 1, its completed value the 0 of the failed call) is
\* present in both gauges.
C10_Witness ==
    /\ mutex = 0
    /\ \E k \in Keys :
         /\ k \in DOMAIN durationScheduled
         /\ k \in DOMAIN durationCompleted
         /\ durationScheduled[k] = 1
         /\ durationCompleted[k] = 0

=============================================================================
